---- MODULE Spec2Model ----
(***************************************************************************)
(* Model of airbnb-lock-sync: get_future_events (airbnb_ical.py) turns an  *)
(* iCal feed into reservation records, and the sync pass of main.py diffs  *)
(* them against the access codes of a Seam lock (locks/seam.py), creating, *)
(* updating and deleting codes and notifying through Telegram.             *)
(*                                                                         *)
(* Data representation                                                     *)
(*   text that is computed on (PINs)  : sequence of one-character strings  *)
(*   opaque text (names, zone names)  : TLA+ string                        *)
(*   datetime                         : [date, tod, us, tz]                *)
(*        date = day number, tod = second of the day, us = microsecond,    *)
(*        tz = "naive", "UTC" (timezone.utc) or a zone name                *)
(*   ISO-8601 text of a datetime      : [date, tod, us, off, zulu]         *)
(*        off = UTC offset in seconds, zulu = written with a trailing 'Z'  *)
(*   Python None                      : None (str), NoneInt (int),         *)
(*        NoneChars (character sequence), NoneIso (ISO text), NoDt (dt)    *)
(***************************************************************************)
EXTENDS Integers, Sequences, FiniteSets, TLC

VARIABLES
    feed,                 \* the VEVENT components of the calendar document behind AIRBNB_ICAL
    cfg,                  \* the environment variables read by the program
    now,                  \* datetime.now(timezone.utc)
    lock,                 \* the access codes held by the lock vendor (authoritative copy)
    pc,                   \* position of the sync pass: "idle", "fetched", "reservations", "deletes"
    fetched,              \* what the calendar source did in the pass: "none" before the first pass
    current_reservations, \* main.py:152
    access_codes,         \* main.py:160, the snapshot of the pass
    reservation_codes,    \* main.py:169, dict as a sequence of [key, value] in insertion order
    lock_codes,           \* main.py:170, dict as a sequence of [key, value] in insertion order
    idx,                  \* position of the running for-loop in its dict
    actions,              \* what the pass has emitted so far, in order
    exit_status,          \* how the last pass ended: "none", "running", "completed", "exit0", "exception"
    prev                  \* summary of the pass before the current one

vars == <<feed, cfg, now, lock, pc, fetched, current_reservations, access_codes,
          reservation_codes, lock_codes, idx, actions, exit_status, prev>>

-----------------------------------------------------------------------------
(* Python None, one value per field type *)

None == "<None>"
NoneInt == 0 - 1
NoneChars == <<"<None>">>
NoneIso == [none |-> TRUE]
NoDt == [absent |-> TRUE]

-----------------------------------------------------------------------------
(* int() and str() on PIN text *)

DigitChars == {"0", "1", "2", "3", "4", "5", "6", "7", "8", "9"}

DigitVal(c) ==
    CASE c = "0" -> 0 [] c = "1" -> 1 [] c = "2" -> 2 [] c = "3" -> 3 [] c = "4" -> 4
      [] c = "5" -> 5 [] c = "6" -> 6 [] c = "7" -> 7 [] c = "8" -> 8 [] c = "9" -> 9

DigitChar(d) ==
    CASE d = 0 -> "0" [] d = 1 -> "1" [] d = 2 -> "2" [] d = 3 -> "3" [] d = 4 -> "4"
      [] d = 5 -> "5" [] d = 6 -> "6" [] d = 7 -> "7" [] d = 8 -> "8" [] d = 9 -> "9"

\* int(s) succeeds: s is text (not None), not empty, all decimal digits
IntParses(s) ==
    /\ s # NoneChars
    /\ Len(s) > 0
    /\ \A i \in 1..Len(s) : s[i] \in DigitChars

RECURSIVE IntOfChars(_)
\* int(s) for a digit string: leading zeros carry no value
IntOfChars(s) ==
    IF Len(s) = 0 THEN 0
    ELSE 10 * IntOfChars(SubSeq(s, 1, Len(s) - 1)) + DigitVal(s[Len(s)])

RECURSIVE CharsOfNat(_)
\* str(n) for n >= 0: decimal digits, no leading zeros
CharsOfNat(n) ==
    IF n < 10 THEN <<DigitChar(n)>>
    ELSE Append(CharsOfNat(n \div 10), DigitChar(n % 10))

\* str(x) for x an int or None
StrOfInt(x) == IF x = NoneInt THEN <<"N", "o", "n", "e">> ELSE CharsOfNat(x)

-----------------------------------------------------------------------------
(* datetime arithmetic *)

\* utcoffset() of the zones of the model; no zone has daylight saving time.
\* "UTC" is timezone.utc; "Etc/UTC" is the zone object of a value the feed gives
\* in UTC, which is at offset 0 and is not equal to timezone.utc.
UtcOffset(tz) ==
    CASE tz = "UTC" -> 0
      [] tz = "Etc/UTC" -> 0
      [] tz = "America/Sao_Paulo" -> 0 - (3 * 3600)
      [] tz = "Asia/Tokyo" -> 9 * 3600

\* seconds since day 0, 00:00 UTC, of an aware datetime
Timestamp(dt) == dt.date * 86400 + dt.tod - UtcOffset(dt.tz)

\* a > b for aware datetimes: the instants are compared
DtGreater(a, b) ==
    \/ Timestamp(a) > Timestamp(b)
    \/ Timestamp(a) = Timestamp(b) /\ a.us > b.us

\* dt.replace(hour=, minute=, second=): date, microsecond and tzinfo are kept
ReplaceTime(dt, hour, minute, second) ==
    [dt EXCEPT !.tod = hour * 3600 + minute * 60 + second]

\* dt.astimezone(timezone.utc)
AsUtc(dt) ==
    LET t == Timestamp(dt)
    IN  [date |-> t \div 86400, tod |-> t % 86400, us |-> dt.us, tz |-> "UTC"]

\* dt.isoformat() of an aware datetime
IsoFormat(dt) ==
    [date |-> dt.date, tod |-> dt.tod, us |-> dt.us, off |-> UtcOffset(dt.tz), zulu |-> FALSE]

\* the instant an ISO text denotes, as <<seconds, microseconds>>
IsoInstant(s) == <<s.date * 86400 + s.tod - s.off, s.us>>

\* The characters of an ISO text that decide Python's string order, as numbers:
\* date and time are fixed-width digits; then comes '.' (46) and six digits when
\* microsecond # 0, then the offset's sign '+' (43) or '-' (45), or 'Z' (90),
\* then the fixed-width offset digits.
IsoKey(s) ==
    LET sign == IF s.zulu THEN 90 ELSE IF s.off < 0 THEN 45 ELSE 43
        mag  == IF s.off < 0 THEN 0 - s.off ELSE s.off
    IN  IF s.us = 0
        THEN <<s.date, s.tod, sign, mag, 0, 0>>
        ELSE <<s.date, s.tod, 46, s.us, sign, mag>>

RECURSIVE SeqLess(_, _)
\* lexicographic a < b for number sequences of equal length
SeqLess(a, b) ==
    IF Len(a) = 0 THEN FALSE
    ELSE IF a[1] # b[1] THEN a[1] < b[1]
    ELSE SeqLess(Tail(a), Tail(b))

\* a < b for ISO texts as Python strings
IsoStrLess(a, b) == SeqLess(IsoKey(a), IsoKey(b))

-----------------------------------------------------------------------------
(* airbnb_ical.py: get_future_events *)

\* A calendar component is [name, summary, dtstart, dtend, description].
\* dtstart/dtend are NoDt or [date, tod, us, tz], tz = "date" for a DATE value.
\* description is [url_code, phone]: url_code is the [A-Z0-9]+ text that follows
\* the reservation URL prefix (None when the prefix does not occur), phone is the
\* text that follows "Phone Number (Last 4 Digits):" and white space (NoneChars
\* when the label does not occur).

\* the value of dtstart.dt / dtend.dt as an aware datetime
AsAwareDatetime(v) ==
    IF v.tz = "date" THEN [date |-> v.date, tod |-> 0, us |-> 0, tz |-> "UTC"]
    ELSE IF v.tz = "naive" THEN [v EXCEPT !.tz = "UTC"]
    ELSE v

\* event_end and event_end > now
NotEndedYet(dtend, t) ==
    /\ dtend # NoDt
    /\ DtGreater(AsAwareDatetime(dtend), t)

\* the override of the clock time; clock is the text split at ':' (<<>> for None)
ApplyClock(dt, clock) ==
    IF clock = <<>> THEN dt
    ELSE ReplaceTime(dt, clock[1],
                     IF Len(clock) > 1 THEN clock[2] ELSE 0,
                     IF Len(clock) > 2 THEN clock[3] ELSE 0)

\* the conversion to UTC when AIRBNB_TZ is set
ConvertZone(dt, tz) ==
    IF tz = None THEN dt
    ELSE AsUtc(IF dt.tz = "UTC" THEN [dt EXCEPT !.tz = tz] ELSE dt)

\* event_start with the conversion made before the override
NormalStartZoneFirst(comp, c) ==
    ApplyClock(ConvertZone(AsAwareDatetime(comp.dtstart), c.tz), c.check_in_time)

\* event_start as it leaves the override and the conversion
NormalStart(comp, c) ==
    ConvertZone(ApplyClock(AsAwareDatetime(comp.dtstart), c.check_in_time), c.tz)

\* event_end as it leaves the override and the conversion
NormalEnd(comp, c) ==
    ConvertZone(ApplyClock(AsAwareDatetime(comp.dtend), c.check_out_time), c.tz)

\* the horizon test with >= in place of >
StartsFromLimit(event_start, max_start_days, t) ==
    /\ max_start_days # NoneInt
    /\ ~DtGreater([t EXCEPT !.date = t.date + max_start_days], event_start)

\* max_start_date is not None and event_start > max_start_date
StartsTooLate(event_start, max_start_days, t) ==
    /\ max_start_days # NoneInt
    /\ DtGreater(event_start, [t EXCEPT !.date = t.date + max_start_days])

\* re.search(r'...:\s*(\d{4})', description) matches
DigitsMatch(phone) ==
    /\ phone # NoneChars
    /\ Len(phone) >= 4
    /\ \A i \in 1..4 : phone[i] \in DigitChars

\* last_digits
LastDigits(description) ==
    IF DigitsMatch(description.phone)
    THEN IntOfChars(SubSeq(description.phone, 1, 4))
    ELSE NoneInt

\* the loop body with the summary compared without regard to case
IsKeptAnyCase(comp, c, t) ==
    /\ comp.name = "VEVENT"
    /\ comp.summary \in {"Reserved", "reserved"}
    /\ comp.dtstart # NoDt
    /\ NotEndedYet(comp.dtend, t)
    /\ ~StartsTooLate(NormalStart(comp, c), c.max_start_days, t)

\* whether the loop body reaches future_events.append for the component
IsKept(comp, c, t) ==
    /\ comp.name = "VEVENT"
    /\ comp.summary = "Reserved"
    /\ comp.dtstart # NoDt
    /\ NotEndedYet(comp.dtend, t)
    /\ ~StartsTooLate(NormalStart(comp, c), c.max_start_days, t)

\* event_data
EventData(comp, c) ==
    [start             |-> IsoFormat(NormalStart(comp, c)),
     end               |-> IsoFormat(NormalEnd(comp, c)),
     last_digits       |-> LastDigits(comp.description),
     url               |-> IF comp.description.url_code = None THEN None
                           ELSE "https://www.airbnb.com/hosting/reservations/details/"
                                \o comp.description.url_code,
     confirmation_code |-> comp.description.url_code]

RECURSIVE FutureEvents(_, _, _)
\* future_events when the for-loop over calendar.walk() ends
FutureEvents(calendar, c, t) ==
    IF Len(calendar) = 0 THEN <<>>
    ELSE LET rest == FutureEvents(SubSeq(calendar, 1, Len(calendar) - 1), c, t)
             comp == calendar[Len(calendar)]
         IN  IF IsKept(comp, c, t) THEN Append(rest, EventData(comp, c)) ELSE rest

\* the place list.sort puts x in an already sorted list: after every element
\* whose key is not greater (the sort is stable)
InsertByStart(sorted, x) ==
    LET n == Cardinality({i \in 1..Len(sorted) : ~IsoStrLess(x.start, sorted[i].start)})
    IN  SubSeq(sorted, 1, n) \o <<x>> \o SubSeq(sorted, n + 1, Len(sorted))

\* the list left in the order of the feed
KeepFeedOrder(events) == events

RECURSIVE SortByStart(_)
\* future_events.sort(key=lambda x: x['start'])
SortByStart(events) ==
    IF Len(events) = 0 THEN <<>>
    ELSE InsertByStart(SortByStart(SubSeq(events, 1, Len(events) - 1)), events[Len(events)])

\* get_future_events when Calendar.from_ical does not raise; response is "ok" or
\* "RequestException" (requests.get or raise_for_status raised). The list the
\* loop has built is bound to future_events, then sorted in one go.
get_future_events(response, calendar, c, t) ==
    IF response = "RequestException" THEN <<>>
    ELSE CHOOSE sorted \in { SortByStart(future_events) :
                               future_events \in {FutureEvents(calendar, c, t)} } : TRUE

-----------------------------------------------------------------------------
(* locks/seam.py: SeamLock over the vendor's access codes. main.py names its  *)
(* lock class YaleLock (yale.yale) and calls these four methods on it with    *)
(* SEAM_LOCK as the device; SeamLock is the lock class the repository has.    *)

\* An access code is [access_code_id, name, code, starts_at, ends_at]; codes is
\* the vendor's list for the device.

\* the vendor-assigned id of a new access code: the least id not in use
FreshId(codes) ==
    CHOOSE n \in 1..(Len(codes) + 1) :
        /\ \A i \in 1..Len(codes) : codes[i].access_code_id # n
        /\ \A m \in 1..(n - 1) : \E i \in 1..Len(codes) : codes[i].access_code_id = m

\* SeamLock.create_access_code: the vendor's list after the call
create_access_code(codes, name, code, starts_at, ends_at) ==
    Append(codes, [access_code_id |-> FreshId(codes), name |-> name, code |-> code,
                   starts_at |-> starts_at, ends_at |-> ends_at])

\* SeamLock.grab_access_codes
grab_access_codes(codes) == codes

\* the first position in the list whose name is name, 0 when there is none
FirstNamed(codes, name) ==
    IF \E i \in 1..Len(codes) : codes[i].name = name
    THEN CHOOSE i \in 1..Len(codes) :
            /\ codes[i].name = name
            /\ \A j \in 1..(i - 1) : codes[j].name # name
    ELSE 0

\* SeamLock.update_access_code: the vendor's list after the call
update_access_code(codes, name, code, starts_at, ends_at) ==
    LET i == FirstNamed(grab_access_codes(codes), name)
    IN  IF i = 0 THEN codes
        ELSE [codes EXCEPT ![i] = [@ EXCEPT !.code = code, !.starts_at = starts_at,
                                            !.ends_at = ends_at]]

\* delete_access_code that deletes the first access code of the list, whatever
\* its name is
delete_access_code_at_head(codes, name) ==
    IF Len(codes) = 0 THEN codes ELSE Tail(codes)

\* SeamLock.delete_access_code: the vendor's list after the call
delete_access_code(codes, name) ==
    LET i == FirstNamed(grab_access_codes(codes), name)
    IN  IF i = 0 THEN codes
        ELSE SubSeq(codes, 1, i - 1) \o SubSeq(codes, i + 1, Len(codes))

-----------------------------------------------------------------------------
(* Python dict, as the sequence of its [key, value] items in insertion order *)

HasKey(d, k) == \E i \in 1..Len(d) : d[i].key = k

Get(d, k) == d[CHOOSE i \in 1..Len(d) : d[i].key = k].value

\* d[k] = v: a key already present keeps its place and takes the new value
Put(d, k, v) ==
    IF HasKey(d, k)
    THEN [i \in 1..Len(d) |-> IF d[i].key = k THEN [key |-> k, value |-> v] ELSE d[i]]
    ELSE Append(d, [key |-> k, value |-> v])

\* a list of the items instead of a dict: one item per reservation with a code
ReservationItems(reservations) ==
    SelectSeq([i \in 1..Len(reservations) |->
                  [key |-> reservations[i].confirmation_code, value |-> reservations[i]]],
              LAMBDA item : item.key # None)

RECURSIVE ReservationDict(_)
\* {str(res['confirmation_code']): res for res in current_reservations if res['confirmation_code']}
ReservationDict(reservations) ==
    IF Len(reservations) = 0 THEN <<>>
    ELSE LET d   == ReservationDict(SubSeq(reservations, 1, Len(reservations) - 1))
             res == reservations[Len(reservations)]
         IN  IF res.confirmation_code # None THEN Put(d, res.confirmation_code, res) ELSE d

RECURSIVE LockDictTimeBound(_)
\* the dict of the access codes that have a validity window only
LockDictTimeBound(codes) ==
    IF Len(codes) = 0 THEN <<>>
    ELSE LET d == LockDictTimeBound(SubSeq(codes, 1, Len(codes) - 1))
             code == codes[Len(codes)]
         IN  IF code.starts_at # NoneIso THEN Put(d, code.name, code) ELSE d

RECURSIVE LockDict(_)
\* {code['name']: code for code in access_codes}
LockDict(codes) ==
    IF Len(codes) = 0 THEN <<>>
    ELSE Put(LockDict(SubSeq(codes, 1, Len(codes) - 1)), codes[Len(codes)].name, codes[Len(codes)])

-----------------------------------------------------------------------------
(* main.py: check_code and the three actions *)

\* normalize_datetime without replace(microsecond=0)
normalize_datetime_with_microseconds(dt_str) ==
    IF dt_str = NoneIso THEN NoneIso
    ELSE [dt_str EXCEPT !.zulu = FALSE]

\* normalize_datetime (nested in check_code); every ISO text of the model parses
normalize_datetime(dt_str) ==
    IF dt_str = NoneIso THEN NoneIso
    ELSE [dt_str EXCEPT !.us = 0, !.zulu = FALSE]

\* int(access_code['code']) raises (TypeError for None, ValueError for other text)
CheckCodeRaises(access_code) == ~IntParses(access_code.code)

\* check_code that compares the times whatever check_times says
check_code_always_times(reservation, access_code, check_times) ==
    /\ reservation.last_digits = IntOfChars(access_code.code)
    /\ normalize_datetime(reservation.start) = normalize_datetime(access_code.starts_at)
    /\ normalize_datetime(reservation.end) = normalize_datetime(access_code.ends_at)

\* check_code, when int() does not raise
check_code(reservation, access_code, check_times) ==
    IF reservation.last_digits # IntOfChars(access_code.code) THEN FALSE
    ELSE IF check_times
    THEN IF normalize_datetime(reservation.start) # normalize_datetime(access_code.starts_at)
         THEN FALSE
         ELSE IF normalize_datetime(reservation.end) # normalize_datetime(access_code.ends_at)
         THEN FALSE
         ELSE TRUE
    ELSE TRUE

\* the code text create_code and update_code pass to the lock
CodeFor(reservation) == StrOfInt(reservation.last_digits)

\* create_code: the vendor's list after the call
create_code(codes, reservation, dry_run) ==
    IF ~dry_run
    THEN create_access_code(codes, reservation.confirmation_code, CodeFor(reservation),
                            reservation.start, reservation.end)
    ELSE codes

\* update_code that calls the lock in a dry run too
update_code_in_dry_run(codes, reservation, access_code, dry_run) ==
    update_access_code(codes, reservation.confirmation_code, StrOfInt(reservation.last_digits),
                       reservation.start, reservation.end)

\* update_code: the vendor's list after the call
update_code(codes, reservation, access_code, dry_run) ==
    IF ~dry_run
    THEN update_access_code(codes, reservation.confirmation_code, CodeFor(reservation),
                            reservation.start, reservation.end)
    ELSE codes

\* delete_code that sends the message and does not call the lock
delete_code_notifying_only(codes, access_code, dry_run) == codes

\* delete_code: the vendor's list after the call
delete_code(codes, access_code, dry_run) ==
    IF ~dry_run THEN delete_access_code(codes, access_code.name) ELSE codes

\* telegram_bot.py: what a call of send_telegram_message can come to. Without
\* TELEGRAM_TOKEN or TELEGRAM_CHAT_ID it returns None ("skipped"); otherwise the
\* request is made and a RequestException is caught and printed ("error").
send_telegram_message(c) ==
    IF ~c.telegram THEN {"skipped"} ELSE {"sent", "error"}

-----------------------------------------------------------------------------
(* Bounds and the inputs the runs are drawn from *)

MaxEvents == 2
MaxCodes == 2

Date(d) == [date |-> d, tod |-> 0, us |-> 0, tz |-> "date"]

Iso(d, tod, us, off, zulu) == [date |-> d, tod |-> tod, us |-> us, off |-> off, zulu |-> zulu]

Vevent(summary, dtstart, dtend, url_code, phone) ==
    [name |-> "VEVENT", summary |-> summary, dtstart |-> dtstart, dtend |-> dtend,
     description |-> [url_code |-> url_code, phone |-> phone]]

AccessCode(name, code, starts_at, ends_at) ==
    [name |-> name, code |-> code, starts_at |-> starts_at, ends_at |-> ends_at]

\* the sync runs happen on day 10 at noon UTC
SyncNow == [date |-> 10, tod |-> 12 * 3600, us |-> 0, tz |-> "UTC"]

\* The events a feed of the sync runs is made of, in feed order; Airbnb writes
\* DATE values. Start dates are pairwise distinct.
SyncEvents ==
    << Vevent("Reserved", Date(11), Date(13), "XYZ789", <<"0", "0", "4", "2">>),
       Vevent("Reserved", Date(12), Date(15), "ABC123", <<"4", "5", "6", "7">>),
       Vevent("Reserved", Date(14), Date(16), None, <<"2", "2", "2", "2">>),
       Vevent("Reserved", Date(16), Date(18), "DEF456", NoneChars),
       Vevent("Reserved", Date(20), Date(22), "ABC123", <<"1", "1", "1", "1">>) >>

\* The access codes a lock of the sync runs starts with. For the reservation
\* ABC123 of days 12 to 15: its window written with 'Z' and sub-second digits,
\* another end, and its window written with the offset -03:00.
SyncCodes ==
    { AccessCode("ABC123", <<"4", "5", "6", "7">>, Iso(12, 0, 123000, 0, TRUE), Iso(15, 0, 0, 0, TRUE)),
      AccessCode("ABC123", <<"4", "5", "6", "7">>, Iso(12, 0, 0, 0, FALSE), Iso(16, 0, 0, 0, FALSE)),
      AccessCode("XYZ789", <<"0", "0", "4", "2">>, NoneIso, NoneIso),
      AccessCode("ABC123", <<"4", "5", "6", "7">>, Iso(11, 21 * 3600, 0, 0 - 3 * 3600, FALSE),
                 Iso(14, 21 * 3600, 0, 0 - 3 * 3600, FALSE)),
      AccessCode("ZZZ999", <<"1", "2", "3", "4">>, NoneIso, NoneIso) }

\* the subsequence of s at the positions in keep
RECURSIVE Pick(_, _)
Pick(s, keep) ==
    IF Len(s) = 0 THEN <<>>
    ELSE LET rest == Pick(SubSeq(s, 1, Len(s) - 1), keep)
         IN  IF Len(s) \in keep THEN Append(rest, s[Len(s)]) ELSE rest

SyncFeeds ==
    { Pick(SyncEvents, keep) : keep \in { k \in SUBSET (1..Len(SyncEvents)) : Cardinality(k) <= MaxEvents } }

\* the vendor's lists of at most MaxCodes access codes, ids in list order
SyncLocks ==
    UNION { { [i \in 1..n |-> [access_code_id |-> i, name |-> f[i].name, code |-> f[i].code,
                               starts_at |-> f[i].starts_at, ends_at |-> f[i].ends_at]]
              : f \in [1..n -> SyncCodes] } : n \in 0..MaxCodes }

\* the environment of a run: the AIRBNB_* values, MAIN_UPDATE_TIMES, MAIN_DRY_RUN and
\* whether TELEGRAM_TOKEN and TELEGRAM_CHAT_ID are both set
Env(check_in_time, check_out_time, tz, max_start_days, check_times, dry_run, telegram) ==
    [check_in_time |-> check_in_time, check_out_time |-> check_out_time, tz |-> tz,
     max_start_days |-> max_start_days, check_times |-> check_times, dry_run |-> dry_run,
     telegram |-> telegram]

\* the environments of the sync runs: no override, no zone, no horizon; Telegram
\* is configured only in runs with time-checking off
SyncCfgs ==
    { Env(<<>>, <<>>, None, NoneInt, ct, dr, tg)
      : ct \in BOOLEAN, dr \in BOOLEAN, tg \in BOOLEAN } \ { Env(<<>>, <<>>, None, NoneInt, TRUE, dr, TRUE) : dr \in BOOLEAN }

NoPrev == [status |-> "none"]

Idle ==
    /\ pc = "idle"
    /\ fetched = "none"
    /\ current_reservations = <<>>
    /\ access_codes = <<>>
    /\ reservation_codes = <<>>
    /\ lock_codes = <<>>
    /\ idx = 0
    /\ actions = <<>>
    /\ exit_status = "none"
    /\ prev = NoPrev

Init ==
    /\ feed \in SyncFeeds
    /\ cfg \in SyncCfgs
    /\ now = SyncNow
    /\ lock \in SyncLocks
    /\ Idle

-----------------------------------------------------------------------------
(* main.py: the sync pass, one action per statement that can end it or act *)

\* the exception is noted and the script goes on where it is
RaiseAndGoOn ==
    /\ pc' = pc
    /\ exit_status' = "exception"

\* an uncaught exception ends the process
Raise ==
    /\ pc' = "idle"
    /\ exit_status' = "exception"

\* one entry of the pass's record of what it emitted; code is the code text of
\* the action, notified what became of its Telegram message
Emitted(kind, name, code, applied, notified) ==
    [kind |-> kind, name |-> name, code |-> code, applied |-> applied, notified |-> notified]

\* What is remembered of a pass when the next one starts with the reservations
\* next_reservations: how it ended, and the name of the code it created in the
\* lock if it did, when it ended without an exception and the next pass has
\* the same reservations; nothing otherwise.
PassSummary(next_reservations) ==
    IF exit_status \in {"completed", "exit0"} /\ current_reservations = next_reservations
    THEN [status  |-> exit_status,
          created |-> IF exit_status = "exit0" /\ actions[Len(actions)].applied
                      THEN actions[Len(actions)].name
                      ELSE None]
    ELSE NoPrev

\* main.py:152, current_reservations = get_future_events(), in a fresh process;
\* response is what the calendar source does: "ok", "RequestException", or
\* "ValueError" for a document Calendar.from_ical rejects. remembered is what
\* the observer keeps of the pass before.
Start(response, remembered) ==
    /\ pc = "idle"
    /\ fetched' = response
    /\ prev' = remembered
    /\ actions' = <<>>
    /\ access_codes' = <<>>
    /\ reservation_codes' = <<>>
    /\ lock_codes' = <<>>
    /\ idx' = 0
    /\ IF response = "ValueError"
       THEN /\ current_reservations' = <<>>
            /\ Raise
       ELSE /\ current_reservations' = get_future_events(response, feed, cfg, now)
            /\ pc' = "fetched"
            /\ exit_status' = "running"
    /\ UNCHANGED <<feed, cfg, now, lock>>

\* main.py:158-170, the snapshot of the lock and the two dicts
Grab(vendor_ok) ==
    /\ pc = "fetched"
    /\ IF vendor_ok
       THEN /\ access_codes' = grab_access_codes(lock)
            /\ reservation_codes' = ReservationDict(current_reservations)
            /\ lock_codes' = LockDict(grab_access_codes(lock))
            /\ idx' = 1
            /\ pc' = "reservations"
            /\ UNCHANGED exit_status
       ELSE /\ Raise
            /\ UNCHANGED <<access_codes, reservation_codes, lock_codes, idx>>
    /\ UNCHANGED <<feed, cfg, now, fetched, lock, current_reservations, actions, prev>>

\* create_code without the sys.exit(0) after it: the loop goes on
CreateMissingAndGoOn(vendor_ok, notified) ==
    /\ pc = "reservations"
    /\ idx <= Len(reservation_codes)
    /\ ~HasKey(lock_codes, reservation_codes[idx].key)
    /\ LET code        == reservation_codes[idx].key
           reservation == reservation_codes[idx].value
       IN  IF cfg.dry_run \/ vendor_ok
           THEN /\ lock' = create_code(lock, reservation, cfg.dry_run)
                /\ actions' = Append(actions, Emitted("Create", code, CodeFor(reservation),
                                                      ~cfg.dry_run, notified))
                /\ idx' = idx + 1
                /\ UNCHANGED <<pc, exit_status>>
           ELSE /\ Raise
                /\ UNCHANGED <<lock, actions, idx>>
    /\ UNCHANGED <<feed, cfg, now, fetched, current_reservations, access_codes, reservation_codes,
                   lock_codes, prev>>

\* main.py:172-176, no access code is named like the reservation: create_code,
\* then sys.exit(0)
CreateMissing(vendor_ok, notified) ==
    /\ pc = "reservations"
    /\ idx <= Len(reservation_codes)
    /\ ~HasKey(lock_codes, reservation_codes[idx].key)
    /\ LET code        == reservation_codes[idx].key
           reservation == reservation_codes[idx].value
       IN  IF cfg.dry_run \/ vendor_ok
           THEN /\ lock' = create_code(lock, reservation, cfg.dry_run)
                /\ actions' = Append(actions, Emitted("Create", code, CodeFor(reservation),
                                                      ~cfg.dry_run, notified))
                /\ pc' = "idle"
                /\ exit_status' = "exit0"
           ELSE /\ Raise
                /\ UNCHANGED <<lock, actions>>
    /\ UNCHANGED <<feed, cfg, now, fetched, current_reservations, access_codes, reservation_codes,
                   lock_codes, idx, prev>>

\* the exception of check_code caught: the loop goes on with the next reservation
CheckFailsAndSkips ==
    /\ pc = "reservations"
    /\ idx <= Len(reservation_codes)
    /\ HasKey(lock_codes, reservation_codes[idx].key)
    /\ CheckCodeRaises(Get(lock_codes, reservation_codes[idx].key))
    /\ idx' = idx + 1
    /\ UNCHANGED <<feed, cfg, now, fetched, lock, pc, current_reservations, access_codes,
                   reservation_codes, lock_codes, actions, exit_status, prev>>

\* main.py:178 with main.py:12, int(access_code['code']) raises inside check_code
CheckFails ==
    /\ pc = "reservations"
    /\ idx <= Len(reservation_codes)
    /\ HasKey(lock_codes, reservation_codes[idx].key)
    /\ CheckCodeRaises(Get(lock_codes, reservation_codes[idx].key))
    /\ Raise
    /\ UNCHANGED <<feed, cfg, now, fetched, lock, current_reservations, access_codes, reservation_codes,
                   lock_codes, idx, actions, prev>>

\* main.py:178, check_code returns True: nothing to do for the reservation
KeepMatching ==
    /\ pc = "reservations"
    /\ idx <= Len(reservation_codes)
    /\ HasKey(lock_codes, reservation_codes[idx].key)
    /\ LET code        == reservation_codes[idx].key
           reservation == reservation_codes[idx].value
           access_code == Get(lock_codes, code)
       IN  /\ ~CheckCodeRaises(access_code)
           /\ check_code(reservation, access_code, cfg.check_times)
           /\ actions' = Append(actions, Emitted("NoOp", code, access_code.code, FALSE, "none"))
    /\ idx' = idx + 1
    /\ UNCHANGED <<feed, cfg, now, fetched, lock, pc, current_reservations, access_codes,
                   reservation_codes, lock_codes, exit_status, prev>>

\* main.py:178-179, check_code returns False: update_code
UpdateMismatch(vendor_ok, notified) ==
    /\ pc = "reservations"
    /\ idx <= Len(reservation_codes)
    /\ HasKey(lock_codes, reservation_codes[idx].key)
    /\ LET code        == reservation_codes[idx].key
           reservation == reservation_codes[idx].value
           access_code == Get(lock_codes, code)
       IN  /\ ~CheckCodeRaises(access_code)
           /\ ~check_code(reservation, access_code, cfg.check_times)
           /\ IF cfg.dry_run \/ vendor_ok
              THEN /\ lock' = update_code(lock, reservation, access_code, cfg.dry_run)
                   /\ actions' = Append(actions, Emitted("Update", code, CodeFor(reservation),
                                                         ~cfg.dry_run, notified))
                   /\ idx' = idx + 1
                   /\ UNCHANGED <<pc, exit_status>>
              ELSE /\ Raise
                   /\ UNCHANGED <<lock, actions, idx>>
    /\ UNCHANGED <<feed, cfg, now, fetched, current_reservations, access_codes, reservation_codes,
                   lock_codes, prev>>

\* main.py:171, the loop over reservation_codes is exhausted
ReservationsDone ==
    /\ pc = "reservations"
    /\ idx > Len(reservation_codes)
    /\ pc' = "deletes"
    /\ idx' = 1
    /\ UNCHANGED <<feed, cfg, now, fetched, lock, current_reservations, access_codes, reservation_codes,
                   lock_codes, actions, exit_status, prev>>

\* main.py:182-183, the access code's name is a reservation's key: next item
SkipMatched ==
    /\ pc = "deletes"
    /\ idx <= Len(lock_codes)
    /\ HasKey(reservation_codes, lock_codes[idx].key)
    /\ idx' = idx + 1
    /\ UNCHANGED <<feed, cfg, now, fetched, lock, pc, current_reservations, access_codes,
                   reservation_codes, lock_codes, actions, exit_status, prev>>

\* main.py:183-185, no reservation has the access code's name: delete_code
DeleteExtra(vendor_ok, notified) ==
    /\ pc = "deletes"
    /\ idx <= Len(lock_codes)
    /\ ~HasKey(reservation_codes, lock_codes[idx].key)
    /\ LET access_code == lock_codes[idx].value
       IN  IF cfg.dry_run \/ vendor_ok
           THEN /\ lock' = delete_code(lock, access_code, cfg.dry_run)
                /\ actions' = Append(actions, Emitted("Delete", access_code.name, access_code.code,
                                                      ~cfg.dry_run, notified))
                /\ idx' = idx + 1
                /\ UNCHANGED <<pc, exit_status>>
           ELSE /\ Raise
                /\ UNCHANGED <<lock, actions, idx>>
    /\ UNCHANGED <<feed, cfg, now, fetched, current_reservations, access_codes, reservation_codes,
                   lock_codes, prev>>

\* main.py:185, the loop over lock_codes is exhausted: the script ends
PassDone ==
    /\ pc = "deletes"
    /\ idx > Len(lock_codes)
    /\ pc' = "idle"
    /\ exit_status' = "completed"
    /\ UNCHANGED <<feed, cfg, now, fetched, lock, current_reservations, access_codes, reservation_codes,
                   lock_codes, idx, actions, prev>>

\* a pass starts
Fetch(response) == Start(response, NoPrev)

Next ==
    \/ \E response \in {"ok", "RequestException", "ValueError"} : Fetch(response)
    \/ \E vendor_ok \in BOOLEAN : Grab(vendor_ok)
    \/ \E vendor_ok \in BOOLEAN, notified \in send_telegram_message(cfg) :
          CreateMissing(vendor_ok, notified)
    \/ CheckFails
    \/ KeepMatching
    \/ \E vendor_ok \in BOOLEAN, notified \in send_telegram_message(cfg) :
          UpdateMismatch(vendor_ok, notified)
    \/ ReservationsDone
    \/ SkipMatched
    \/ \E vendor_ok \in BOOLEAN, notified \in send_telegram_message(cfg) :
          DeleteExtra(vendor_ok, notified)
    \/ PassDone

Spec == Init /\ [][Next]_vars

-----------------------------------------------------------------------------
(* Two passes in a row, the second one observed with a summary of the first *)

FetchAgain(response) ==
    Start(response, IF response = "ValueError" THEN NoPrev
                    ELSE PassSummary(get_future_events(response, feed, cfg, now)))

\* Telegram is not configured in these runs
InitTwice ==
    /\ Init
    /\ ~cfg.telegram

NextTwice ==
    \/ \E response \in {"ok", "RequestException", "ValueError"} : FetchAgain(response)
    \/ \E vendor_ok \in BOOLEAN : Grab(vendor_ok)
    \/ \E vendor_ok \in BOOLEAN, notified \in send_telegram_message(cfg) :
          CreateMissing(vendor_ok, notified)
    \/ CheckFails
    \/ KeepMatching
    \/ \E vendor_ok \in BOOLEAN, notified \in send_telegram_message(cfg) :
          UpdateMismatch(vendor_ok, notified)
    \/ ReservationsDone
    \/ SkipMatched
    \/ \E vendor_ok \in BOOLEAN, notified \in send_telegram_message(cfg) :
          DeleteExtra(vendor_ok, notified)
    \/ PassDone

SpecTwice == InitTwice /\ [][NextTwice]_vars

-----------------------------------------------------------------------------
(* The scheduled job: passes run again and again, dry-run off, and neither the *)
(* calendar source nor the lock vendor fails                                   *)

InitSteady ==
    /\ Init
    /\ ~cfg.dry_run

NextSteady ==
    \/ Fetch("ok")
    \/ Grab(TRUE)
    \/ \E notified \in send_telegram_message(cfg) : CreateMissing(TRUE, notified)
    \/ CheckFails
    \/ KeepMatching
    \/ \E notified \in send_telegram_message(cfg) : UpdateMismatch(TRUE, notified)
    \/ ReservationsDone
    \/ SkipMatched
    \/ \E notified \in send_telegram_message(cfg) : DeleteExtra(TRUE, notified)
    \/ PassDone

\* the scheduler starts the job again whenever it has ended, and a started
\* process runs until it ends
SpecSteady == InitSteady /\ [][NextSteady]_vars /\ WF_vars(NextSteady)

-----------------------------------------------------------------------------
(* Passes over feeds that hold events other than reservations *)

\* The events of these feeds, in feed order, which is not the order of the
\* starts: next to four reservations, two of them with one confirmation code, an
\* event summarized "reserved" and a blocked period, both with a description
\* that holds a reservation URL and a phone number.
MixedEvents ==
    << Vevent("Reserved", Date(20), Date(22), "ABC123", <<"1", "1", "1", "1">>),
       Vevent("Reserved", Date(11), Date(13), "XYZ789", <<"0", "0", "4", "2">>),
       Vevent("reserved", Date(12), Date(14), "ZZZ999", <<"1", "2", "3", "4">>),
       Vevent("Airbnb (Not available)", Date(13), Date(15), "ABC123", <<"9", "9", "9", "9">>),
       Vevent("Reserved", Date(14), Date(16), "ABC123", <<"4", "5", "6", "7">>),
       Vevent("Reserved", Date(16), Date(18), "DEF456", NoneChars) >>

MixedFeeds ==
    { Pick(MixedEvents, keep) : keep \in { k \in SUBSET (1..Len(MixedEvents)) : Cardinality(k) <= MaxEvents } }

\* the access codes a lock of these runs starts with
MixedCodes ==
    { AccessCode("ABC123", <<"4", "5", "6", "7">>, Iso(14, 0, 0, 0, FALSE), Iso(16, 0, 0, 0, FALSE)),
      AccessCode("XYZ789", <<"0", "0", "4", "2">>, NoneIso, NoneIso),
      AccessCode("ZZZ999", <<"1", "2", "3", "4">>, Iso(12, 0, 0, 0, FALSE), Iso(14, 0, 0, 0, FALSE)) }

MixedLocks ==
    UNION { { [i \in 1..n |-> [access_code_id |-> i, name |-> f[i].name, code |-> f[i].code,
                               starts_at |-> f[i].starts_at, ends_at |-> f[i].ends_at]]
              : f \in [1..n -> MixedCodes] } : n \in 0..MaxCodes }

InitMixed ==
    /\ feed \in MixedFeeds
    /\ cfg \in SyncCfgs
    /\ now = SyncNow
    /\ lock \in MixedLocks
    /\ Idle

SpecMixed == InitMixed /\ [][Next]_vars

-----------------------------------------------------------------------------
(* Passes over locks that hold access codes without a usable code value *)

\* the events of these feeds, in feed order
UnsetEvents ==
    << Vevent("Reserved", Date(11), Date(13), "XYZ789", <<"0", "0", "4", "2">>),
       Vevent("Reserved", Date(14), Date(16), "ABC123", <<"4", "5", "6", "7">>),
       Vevent("Reserved", Date(20), Date(22), "ABC123", <<"1", "1", "1", "1">>) >>

UnsetFeeds ==
    { Pick(UnsetEvents, keep) : keep \in { k \in SUBSET (1..Len(UnsetEvents)) : Cardinality(k) <= MaxEvents } }

\* The access codes a lock of these runs starts with: one with a PIN, one whose
\* code is None, one whose code is text that is no integer, and one that no
\* reservation names.
UnsetCodes ==
    { AccessCode("ABC123", <<"4", "5", "6", "7">>, Iso(14, 0, 0, 0, FALSE), Iso(16, 0, 0, 0, FALSE)),
      AccessCode("ABC123", NoneChars, Iso(14, 0, 0, 0, FALSE), Iso(16, 0, 0, 0, FALSE)),
      AccessCode("XYZ789", <<"4", "2", "#">>, NoneIso, NoneIso),
      AccessCode("ZZZ999", <<"1", "2", "3", "4">>, NoneIso, NoneIso) }

UnsetLocks ==
    UNION { { [i \in 1..n |-> [access_code_id |-> i, name |-> f[i].name, code |-> f[i].code,
                               starts_at |-> f[i].starts_at, ends_at |-> f[i].ends_at]]
              : f \in [1..n -> UnsetCodes] } : n \in 0..MaxCodes }

InitUnset ==
    /\ feed \in UnsetFeeds
    /\ cfg \in SyncCfgs
    /\ now = SyncNow
    /\ lock \in UnsetLocks
    /\ Idle

SpecUnset == InitUnset /\ [][Next]_vars

-----------------------------------------------------------------------------
(* get_future_events on its own: feeds with clock times and zones, under the *)
(* overrides, zones and horizons of the environment                        *)

Dt(d, tod, us, tz) == [date |-> d, tod |-> tod, us |-> us, tz |-> tz]

\* The events a feed of these runs is made of; now is day 10, 12:00:00 UTC.
\* EDGE01 starts one day after now to the second; ZONED1 starts an hour later,
\* written in a zone three hours behind UTC.
TimedEvents ==
    { Vevent("Reserved", Date(11), Date(13), "ABC123", <<"4", "5", "6", "7">>),
      Vevent("Reserved", Dt(9, 15 * 3600, 0, "UTC"), Dt(10, 12 * 3600, 0, "UTC"),
             "ENDNOW", <<"1", "0", "0", "0">>),
      Vevent("Reserved", Dt(9, 15 * 3600, 0, "UTC"), Dt(10, 12 * 3600 + 1, 0, "UTC"),
             "ENDSOON", <<"1", "0", "0", "1">>),
      Vevent("Reserved", Dt(11, 10 * 3600, 0, "America/Sao_Paulo"),
             Dt(14, 10 * 3600, 0, "America/Sao_Paulo"), "ZONED1", <<"2", "0", "0", "2">>),
      Vevent("Reserved", Dt(11, 12 * 3600, 0, "Etc/UTC"), Dt(13, 12 * 3600, 0, "Etc/UTC"),
             "EDGE01", <<"5", "0", "0", "5">>),
      Vevent("Reserved", Dt(10, 20 * 3600, 250000, "naive"), Dt(11, 3600, 250000, "naive"),
             "NAIVE1", <<"3", "0", "0", "3">>),
      Vevent("Airbnb (Not available)", Date(11), Date(12), None, NoneChars),
      Vevent("Reserved", Date(11), NoDt, "NOEND1", <<"4", "0", "0", "4">>) }

\* the feeds of at most MaxEvents events
TimedFeeds == UNION { [1..n -> TimedEvents] : n \in 0..MaxEvents }

\* the environments of these runs
TimedCfgs ==
    { Env(ci, co, tz, ms, FALSE, FALSE, FALSE)
      : ci \in {<<>>, <<15, 0>>},
        co \in {<<>>, <<11>>, <<10, 30, 0>>},
        tz \in {None, "America/Sao_Paulo", "Asia/Tokyo"},
        ms \in {NoneInt, 1} }

InitEvents ==
    /\ feed \in TimedFeeds
    /\ cfg \in TimedCfgs
    /\ now = SyncNow
    /\ lock = <<>>
    /\ Idle

NextEvents == \E response \in {"ok", "RequestException"} : Fetch(response)

SpecEvents == InitEvents /\ [][NextEvents]_vars

-----------------------------------------------------------------------------
(* The claims *)

\* the instant of an aware datetime, as <<seconds, microseconds>>
DtInstant(dt) == <<Timestamp(dt), dt.us>>

\* instant p is strictly after instant q
Later(p, q) == p[1] > q[1] \/ (p[1] = q[1] /\ p[2] > q[2])

\* the pass has emitted an action of one of the kinds
EmittedKinds == {actions[i].kind : i \in 1..Len(actions)}

\* the confirmation codes of the current reservations
ConfirmationCodes ==
    {current_reservations[i].confirmation_code : i \in 1..Len(current_reservations)} \ {None}

\* C1: when the calendar fetch fails, the pass applies no Create, Update or
\* Delete and the lock keeps the access codes it had: a failed fetch is not a
\* feed without reservations.
C1_FetchFailureLeavesLock ==
    fetched \in {"RequestException", "ValueError"} =>
        /\ EmittedKinds \subseteq {"NoOp"}
        /\ pc \in {"reservations", "deletes"} => lock = access_codes

\* the reservation the pass keeps for confirmation code k: the last one listed
LastReservation(k) ==
    current_reservations[
        CHOOSE i \in 1..Len(current_reservations) :
            /\ current_reservations[i].confirmation_code = k
            /\ \A j \in (i + 1)..Len(current_reservations) :
                  current_reservations[j].confirmation_code # k]

\* the access code of the snapshot the pass keeps for name k: the last one listed
SnapshotCode(k) ==
    access_codes[
        CHOOSE i \in 1..Len(access_codes) :
            /\ access_codes[i].name = k
            /\ \A j \in (i + 1)..Len(access_codes) : access_codes[j].name # k]

\* every access code of the snapshot whose name is no reservation's confirmation
\* code has a Delete among the actions of the pass
UnmatchedAreDeleted ==
    \A i \in 1..Len(access_codes) :
        access_codes[i].name \notin ConfirmationCodes =>
            \E j \in 1..Len(actions) :
                /\ actions[j].kind = "Delete"
                /\ actions[j].name = access_codes[i].name

\* C2 as claimed: in every pass that ends without an exception, whatever it
\* emits (a Create included), every access code of the snapshot that matches no
\* reservation gets a Delete in that pass.
C2_DeleteWhateverElse ==
    (pc = "idle" /\ exit_status \in {"completed", "exit0"}) => UnmatchedAreDeleted

\* C2 as amended: in every pass that runs to its end (no Create, which ends the
\* pass at once, and no exception), every access code of the snapshot whose name
\* is not the confirmation code of a current reservation gets a Delete for its
\* name in that pass.
C2_DeleteWhenPassCompletes ==
    (pc = "idle" /\ exit_status = "completed") => UnmatchedAreDeleted

\* C2's case: a pass that emitted an Update and then a Delete, and ran to its end
C2_Witness ==
    /\ pc = "idle"
    /\ exit_status = "completed"
    /\ {"Update", "Delete"} \subseteq EmittedKinds

\* C3: after a pass whose actions were all applied, a second pass with the same
\* reservations and the resulting access codes emits only NoOp. Stated for first
\* passes that ran to their end, so that the stop after a Create plays no part.
C3_SecondPassOnlyNoOp ==
    (prev.status = "completed" /\ ~cfg.dry_run) => EmittedKinds \subseteq {"NoOp"}

\* the positions of the feed's events that get_future_events keeps
KeptEvents == {n \in 1..Len(feed) : IsKept(feed[n], cfg, now)}

\* the guests the feed announces: confirmation code and four-digit PIN text of
\* each kept event that has both
Guests ==
    { [name |-> feed[n].description.url_code, pin |-> SubSeq(feed[n].description.phone, 1, 4)]
      : n \in {m \in KeptEvents : /\ feed[m].description.url_code # None
                                  /\ DigitsMatch(feed[m].description.phone)} }

\* the access code carries the PIN of a kept event with its name; the PIN is
\* compared as a number, and an event without a guest code asks for no PIN
HoldsPinOfReservation(access_code) ==
    \E n \in KeptEvents :
        /\ feed[n].description.url_code = access_code.name
        /\ DigitsMatch(feed[n].description.phone) =>
              /\ IntParses(access_code.code)
              /\ IntOfChars(access_code.code) = LastDigits(feed[n].description)

\* the lock holds one access code per confirmation code of the kept events,
\* with the reservation's PIN, and no other
Converged ==
    /\ \A i \in 1..Len(lock) : HoldsPinOfReservation(lock[i])
    /\ \A n \in KeptEvents :
          feed[n].description.url_code # None =>
              Cardinality({i \in 1..Len(lock) :
                              lock[i].name = feed[n].description.url_code}) = 1

\* C4: with unchanged reservations, no fetch or vendor failure, dry-run off and
\* passes run again and again, the lock eventually holds exactly one access code
\* per reservation, with the reservation's PIN, and no other, and stays so.
C4_EventuallyConverged == <>[]Converged

\* C5: with dry-run on no step changes the lock, no emitted action is applied,
\* and every Create, Update and Delete is still handed to the notifier.
C5_DryRunLeavesLock ==
    /\ [][cfg.dry_run => lock' = lock]_vars
    /\ [](cfg.dry_run =>
            \A i \in 1..Len(actions) :
                /\ ~actions[i].applied
                /\ actions[i].kind # "NoOp" => actions[i].notified # "none")

\* C5's case: a dry run has emitted an Update and a Delete and ended
C5_Witness ==
    /\ cfg.dry_run
    /\ pc = "idle"
    /\ exit_status = "completed"
    /\ {"Update", "Delete"} \subseteq EmittedKinds
    /\ lock = access_codes

\* the PIN of the access code, read as a number, is the reservation's guest code
PinsEqual(reservation, access_code) ==
    IntOfChars(access_code.code) = reservation.last_digits

\* C6: with time-checking off, a reservation whose confirmation code names an
\* access code gets exactly one outcome, Update when the PINs differ and NoOp
\* when they are equal, whatever the validity window is.
C6_PinDecidesWithoutTimes ==
    ~cfg.check_times =>
        /\ pc = "reservations" => Len(actions) = idx - 1
        /\ \A i \in 1..Len(actions) :
              actions[i].kind \in {"Update", "NoOp"} =>
                  (actions[i].kind = "Update"
                     <=> ~PinsEqual(LastReservation(actions[i].name), SnapshotCode(actions[i].name)))

\* C6's case: one pass emitted a NoOp for an access code whose window is not the
\* reservation's and an Update for another
C6_Witness ==
    /\ ~cfg.check_times
    /\ "Update" \in EmittedKinds
    /\ \E i \in 1..Len(actions) :
          /\ actions[i].kind = "NoOp"
          /\ SnapshotCode(actions[i].name).ends_at # LastReservation(actions[i].name).end

\* the two ISO texts are present and agree in date, clock time to the second
\* and offset
SameToSecond(a, b) ==
    /\ a # NoneIso
    /\ b # NoneIso
    /\ a.date = b.date
    /\ a.tod = b.tod
    /\ a.off = b.off

C8_LockGetsFourDigitText ==
    \A i \in 1..Len(actions) :
        (/\ actions[i].kind \in {"Create", "Update"}
         /\ LastReservation(actions[i].name).last_digits # NoneInt) =>
            \E g \in Guests : g.name = actions[i].name /\ g.pin = actions[i].code

\* C9: no Create and no Update is emitted for a reservation that lacks a
\* confirmation code or a guest code.
C9_NoActionWithoutBothCodes ==
    \A i \in 1..Len(actions) :
        actions[i].kind \in {"Create", "Update"} =>
            /\ actions[i].name # None
            /\ LastReservation(actions[i].name).last_digits # NoneInt

\* C10: every reservation get_future_events returns ends, as output, strictly
\* after now, whatever the overrides and the source zone are.
C10_OutputEndsAfterNow ==
    pc = "fetched" =>
        \A i \in 1..Len(current_reservations) :
            Later(IsoInstant(current_reservations[i].end), DtInstant(now))

\* the output of get_future_events has a reservation with the event's
\* confirmation code
InOutput(comp) ==
    \E i \in 1..Len(current_reservations) :
        current_reservations[i].confirmation_code = comp.description.url_code

\* a Reserved event with a start, whose end, as the feed gives it, is after now
ReservedNotEnded(comp) ==
    /\ comp.summary = "Reserved"
    /\ comp.dtstart # NoDt
    /\ comp.dtend # NoDt
    /\ Later(DtInstant(AsAwareDatetime(comp.dtend)), DtInstant(now))

\* now + H days, as an instant
HorizonInstant == <<Timestamp(now) + cfg.max_start_days * 86400, now.us>>

\* C11: with a horizon of H days a Reserved event whose end is after now is in
\* the output exactly when its normalized start is not later than now + H days
\* (a start equal to now + H is kept); without a horizon no such event is left
\* out because of its start.
C11_HorizonKeepsStartsUpToLimit ==
    (pc = "fetched" /\ fetched = "ok") =>
        \A n \in 1..Len(feed) :
            ReservedNotEnded(feed[n]) =>
                (InOutput(feed[n])
                   <=> \/ cfg.max_start_days = NoneInt
                       \/ ~Later(DtInstant(NormalStart(feed[n], cfg)), HorizonInstant))

\* C11's case: under a horizon, the output has a reservation that starts at
\* now + H to the microsecond, and an event of the feed that starts later is
\* left out
C11_Witness ==
    /\ pc = "fetched"
    /\ fetched = "ok"
    /\ cfg.max_start_days # NoneInt
    /\ \E i \in 1..Len(current_reservations) :
          IsoInstant(current_reservations[i].start) = HorizonInstant
    /\ \E n \in 1..Len(feed) : ReservedNotEnded(feed[n]) /\ ~InOutput(feed[n])

\* C12: the list get_future_events returns is in ascending order of the start
\* instants, for every feed and configuration, events in distinct explicit
\* zones without a source zone included.
C12_OutputAscendingByStartInstant ==
    pc = "fetched" =>
        \A i, j \in 1..Len(current_reservations) :
            i < j => ~Later(IsoInstant(current_reservations[i].start),
                            IsoInstant(current_reservations[j].start))

\* C13: every start and end get_future_events returns is written in UTC
\* (offset +00:00), with or without a source zone, whatever zone the event's
\* values carried.
C13_OutputTimesInUtc ==
    pc = "fetched" =>
        \A i \in 1..Len(current_reservations) :
            /\ current_reservations[i].start.off = 0
            /\ current_reservations[i].end.off = 0

\* the seconds after midnight of an override text split at ':'
ClockSeconds(clock) ==
    clock[1] * 3600
      + (IF Len(clock) > 1 THEN clock[2] * 60 ELSE 0)
      + (IF Len(clock) > 2 THEN clock[3] ELSE 0)

\* the value of the feed is a date, a naive time or a time at timezone.utc: the
\* values whose tzinfo is timezone.utc when the override is applied
NaiveOrUtc(v) == v.tz \in {"date", "naive", "UTC"}

\* the instant of 'the date of v at the clock time, as wall-clock time in zone';
\* the fraction of a second of v is kept
WallClockInstant(v, clock, zone) ==
    <<v.date * 86400 + ClockSeconds(clock) - UtcOffset(zone),
      IF v.tz = "date" THEN 0 ELSE v.us>>

\* the zone the override's clock time is read in: the source zone for a naive
\* or UTC value, its own zone for a value that carries one
OverrideZone(v) == IF NaiveOrUtc(v) THEN cfg.tz ELSE v.tz

ReservedCodes ==
    {feed[n].description.url_code : n \in {m \in 1..Len(feed) : feed[m].summary = "Reserved"}}

\* the reservation repeats the code, the digits and the dates of the event
FromEvent(reservation, comp) ==
    /\ reservation.confirmation_code = comp.description.url_code
    /\ reservation.last_digits = LastDigits(comp.description)
    /\ reservation.start.date = comp.dtstart.date
    /\ reservation.end.date = comp.dtend.date

\* C15: an event whose summary is not exactly "Reserved" is never in the output
\* of get_future_events: every reservation of the output repeats an event
\* summarized "Reserved". Such an event causes no Create and no Update, and
\* protects no access code: a pass that runs to its end has emitted the Delete
\* of every name of the snapshot that no "Reserved" event has.
C15_OnlyReservedEventsCount ==
    /\ \A i \in 1..Len(current_reservations) :
          \E n \in 1..Len(feed) :
              feed[n].summary = "Reserved" /\ FromEvent(current_reservations[i], feed[n])
    /\ \A i \in 1..Len(actions) :
          actions[i].kind \in {"Create", "Update"} => actions[i].name \in ReservedCodes
    /\ exit_status = "completed" =>
          \A j \in 1..Len(access_codes) :
              access_codes[j].name \notin ReservedCodes =>
                  \E i \in 1..Len(actions) :
                      actions[i].kind = "Delete" /\ actions[i].name = access_codes[j].name

\* C15's case: the feed has an event summarized "reserved" whose description
\* names an access code of the snapshot, and a reservation; the pass has run to
\* its end and has deleted that access code
C15_Witness ==
    /\ exit_status = "completed"
    /\ Len(current_reservations) > 0
    /\ \E n \in 1..Len(feed), j \in 1..Len(access_codes), i \in 1..Len(actions) :
          /\ feed[n].summary = "reserved"
          /\ access_codes[j].name = feed[n].description.url_code
          /\ actions[i].kind = "Delete"
          /\ actions[i].name = access_codes[j].name

\* the kinds of action the loop over the reservations emits
ReservationKinds == {"Create", "Update", "NoOp"}

\* C16: the actions of one pass hold at most one Create, Update or NoOp per
\* confirmation code and at most one Delete per access-code name, also when
\* reservations share a confirmation code or access codes share a name.
C16_OneActionPerKey ==
    \A i, j \in 1..Len(actions) :
        (i < j /\ actions[i].name = actions[j].name) =>
            /\ ~(actions[i].kind \in ReservationKinds /\ actions[j].kind \in ReservationKinds)
            /\ ~(actions[i].kind = "Delete" /\ actions[j].kind = "Delete")

\* C16's case: two reservations share a confirmation code and two access codes
\* share a name; the pass has run to its end and has acted on the shared code
C16_Witness ==
    /\ exit_status = "completed"
    /\ \E i, j \in 1..Len(current_reservations) :
          /\ i < j
          /\ current_reservations[i].confirmation_code = current_reservations[j].confirmation_code
          /\ \E a \in 1..Len(actions) :
                /\ actions[a].kind \in ReservationKinds
                /\ actions[a].name = current_reservations[i].confirmation_code
    /\ \E i, j \in 1..Len(access_codes) : i < j /\ access_codes[i].name = access_codes[j].name

\* the pass before applied a Create, and this pass has the dict of the same
\* reservations
CreatedBefore ==
    /\ prev.status = "exit0"
    /\ prev.created # None
    /\ HasKey(reservation_codes, prev.created)

\* the place of the created name in reservation_codes
CreatedPos == CHOOSE p \in 1..Len(reservation_codes) : reservation_codes[p].key = prev.created

\* the loop over the reservations is past the created name, or has ended at it
\* with an exception
PastCreated ==
    \/ pc = "deletes"
    \/ exit_status = "completed"
    \/ idx > CreatedPos
    \/ exit_status = "exception" /\ idx = CreatedPos

\* C17: after a pass has applied the Create of reservation k, the next pass,
\* over the same reservations and a snapshot that holds the created code,
\* comes to NoOp for k, with time-checking off and on.
C17_CreateThenNoOp ==
    (CreatedBefore /\ PastCreated) =>
        \E a \in 1..Len(actions) : actions[a].kind = "NoOp" /\ actions[a].name = prev.created

\* C18: fail-fast. A step of a running pass that ends in an exception, as a
\* failed call of the lock service does, ends the pass and changes neither the
\* lock nor the record of the actions: what was applied stays applied. After
\* it nothing is applied to the lock; the next thing to happen is the start
\* of the next pass, which finds the lock as the failed pass left it.
C18_FailFast ==
    [][ /\ (pc # "idle" /\ exit_status' = "exception") =>
              (pc' = "idle" /\ lock' = lock /\ actions' = actions)
        /\ exit_status = "exception" =>
              (lock' = lock /\ pc' \in {"idle", "fetched"} /\ actions' = <<>>) ]_vars

\* C18's case: a call of the lock service has failed after the pass had applied
\* an action, and an access code that no reservation names is still in the lock
C18_Witness ==
    /\ exit_status = "exception"
    /\ \A j \in 1..Len(access_codes) : IntParses(access_codes[j].code)
    /\ \E a \in 1..Len(actions) : actions[a].applied
    /\ \E j \in 1..Len(lock) : ~HasKey(reservation_codes, lock[j].name)

\* how many access codes of the list have the name
Named(codes, name) == Cardinality({j \in 1..Len(codes) : codes[j].name = name})

\* what the applied action a has made of the lock: a Create one more access
\* code of its name, with its code; an Update an access code of its name with
\* its code; a Delete one access code of its name less
Applied(a, before, after) ==
    CASE a.kind = "Create" ->
           /\ Named(after, a.name) = Named(before, a.name) + 1
           /\ \E j \in 1..Len(after) : after[j].name = a.name /\ after[j].code = a.code
      [] a.kind = "Update" ->
           /\ Named(after, a.name) = Named(before, a.name)
           /\ \E j \in 1..Len(after) : after[j].name = a.name /\ after[j].code = a.code
      [] a.kind = "Delete" ->
           Named(after, a.name) = Named(before, a.name) - 1

StartOfKey(k) ==
    LET p == CHOOSE p \in 1..Len(current_reservations) :
                 /\ current_reservations[p].confirmation_code = k
                 /\ \A q \in 1..(p - 1) : current_reservations[q].confirmation_code # k
    IN  current_reservations[p].start

\* C20: the Create, Update and NoOp of one pass come in the order of the sorted
\* reservation list, that is by ascending start, in the order of the sort, of
\* the reservations their confirmation codes stand for, and every Delete comes
\* after all of them.
C20_ReservationOrderThenDeletes ==
    \A i, j \in 1..Len(actions) :
        i < j =>
            /\ (actions[i].kind \in ReservationKinds /\ actions[j].kind \in ReservationKinds) =>
                  ~IsoStrLess(StartOfKey(actions[j].name), StartOfKey(actions[i].name))
            /\ actions[i].kind = "Delete" => actions[j].kind = "Delete"

\* C20's case: the feed gives a later reservation before an earlier one, and
\* the pass has come to an outcome for both
C20_Witness ==
    /\ Len(feed) = 2
    /\ feed[1].summary = "Reserved"
    /\ feed[2].summary = "Reserved"
    /\ feed[1].dtstart.date > feed[2].dtstart.date
    /\ \E i, j \in 1..Len(actions) :
          /\ i < j
          /\ actions[i].kind \in ReservationKinds
          /\ actions[j].kind \in ReservationKinds

\* the names of the access codes of the snapshot
SnapshotNames == {access_codes[j].name : j \in 1..Len(access_codes)}

\* the places in the reservation list of the reservations that have a
\* confirmation code that names no access code of the snapshot
MissingAt ==
    {p \in 1..Len(current_reservations) :
        /\ current_reservations[p].confirmation_code # None
        /\ current_reservations[p].confirmation_code \notin SnapshotNames}

\* C21: the halting policy. A Create of a pass is for the confirmation code of
\* the first reservation of the list that names no access code of the
\* snapshot; it is the last action of the pass, which has ended with it, so a
\* pass has one Create at most and no Update, Create or Delete after it, in
\* dry-run as well; and a pass that reaches its deletes has found an access
\* code for every reservation.
C21_HaltAfterFirstCreate ==
    /\ \A a \in 1..Len(actions) :
          actions[a].kind = "Create" =>
              /\ a = Len(actions)
              /\ pc = "idle"
              /\ exit_status = "exit0"
              /\ MissingAt # {}
              /\ actions[a].name
                   = current_reservations[CHOOSE p \in MissingAt :
                                             \A q \in MissingAt : p <= q].confirmation_code
    /\ (pc = "deletes" \/ exit_status = "completed") => MissingAt = {}

\* C21's case: two reservations name no access code and the lock holds a code
\* no reservation names; the pass has made the Create of the first of the two
\* and has ended
C21_Witness ==
    /\ exit_status = "exit0"
    /\ actions[Len(actions)].kind = "Create"
    /\ \E p, q \in MissingAt :
          current_reservations[p].confirmation_code # current_reservations[q].confirmation_code
    /\ \E j \in 1..Len(lock) : ~HasKey(reservation_codes, lock[j].name)

\* C22: a pass never deletes an access code whose name is the confirmation
\* code of a reservation of its reservation list. In every step of every
\* sequence of passes, an access code that is in the lock before the step and
\* not after it has a name that no current reservation carries, and no Delete
\* of a pass bears the confirmation code of one of its reservations.
C22_MatchedCodesAreKept ==
    [][ /\ \A j \in 1..Len(lock) :
              (\A m \in 1..Len(lock') : lock'[m].access_code_id # lock[j].access_code_id)
                  => lock[j].name \notin ConfirmationCodes
        /\ \A a \in 1..Len(actions') :
              actions'[a].kind = "Delete" => actions'[a].name \notin ConfirmationCodes' ]_vars

\* C22's case: the pass has reservations, has deleted an access code from the
\* lock, and an access code with the confirmation code of a reservation is in
\* the lock
C22_Witness ==
    /\ ConfirmationCodes # {}
    /\ \E a \in 1..Len(actions) : actions[a].kind = "Delete" /\ actions[a].applied
    /\ \E j \in 1..Len(lock) : lock[j].name \in ConfirmationCodes

\* the code value is absent or is not the text of an integer
NoIntegerText(code) ==
    \/ code = NoneChars
    \/ Len(code) = 0
    \/ \E i \in 1..Len(code) : code[i] \notin DigitChars

\* the places in reservation_codes of the reservations whose access code, the
\* one the pass holds under their confirmation code, has such a code value
UnsetAt ==
    {p \in 1..Len(reservation_codes) :
        /\ HasKey(lock_codes, reservation_codes[p].key)
        /\ NoIntegerText(Get(lock_codes, reservation_codes[p].key).code)}

\* the first of these places
FirstUnset == CHOOSE p \in UnsetAt : \A q \in UnsetAt : p <= q

\* C23: when the access code of a reservation has a code value that is absent
\* or no integer text, the pass ends at that reservation with the exception of
\* check_code. In every pass that has such a reservation, the loop never gets
\* past the first of them, a pass that has come to it has ended with an
\* exception, no action bears the confirmation code of that or a later
\* reservation, no Delete is made and the deletes are never reached; this is
\* so in every pass of a sequence, the lock being as the pass before left it.
C23_UnsetCodeEndsPass ==
    UnsetAt # {} =>
        /\ pc # "deletes"
        /\ exit_status # "completed"
        /\ idx <= FirstUnset
        /\ (pc = "idle" /\ idx = FirstUnset) => exit_status = "exception"
        /\ \A a \in 1..Len(actions) :
              /\ actions[a].kind # "Delete"
              /\ \A p \in FirstUnset..Len(reservation_codes) :
                    actions[a].name # reservation_codes[p].key

\* C23's case: the pass has ended with the exception at the reservation whose
\* access code has no integer code; a later reservation has had no outcome, and
\* an access code that no reservation names is still in the lock
C23_Witness ==
    /\ UnsetAt # {}
    /\ pc = "idle"
    /\ idx = FirstUnset
    /\ exit_status = "exception"
    /\ FirstUnset < Len(reservation_codes)
    /\ \E j \in 1..Len(lock) : ~HasKey(reservation_codes, lock[j].name)

====
